---- MODULE Spec2Model ----
(***************************************************************************)
(* Model of bliss.sle.rcf.RCF: the outbound operations of an RCF session   *)
(* (bind, unbind, start, stop, schedule_status_report, peer_abort) and the *)
(* dispatch of inbound PDUs to handlers, as written in                     *)
(* src/bliss/sle/rcf.py.  The session base class (bliss.sle.common.SLE)    *)
(* supplies invoke_id, make_credentials, encode_pdu, send and the handler  *)
(* table; they are modelled at their interface.                            *)
(***************************************************************************)
EXTENDS Integers, Sequences, FiniteSets, TLC

(* ---------------------------------------------------------------------- *)
(* Python values                                                           *)
(* ---------------------------------------------------------------------- *)

\* Python's None in an optional integer argument (every integer the
\* operations accept is >= 0, so the encoding collides with no value).
None == 0 - 1

\* Python truth value of an int-or-None: None and 0 are both false.
Truthy(x) == x # None /\ x # 0

\* datetime.datetime: a proleptic-Gregorian day ordinal and a second of day.
DateTime(ord, sec) == [ordinal |-> ord, second |-> sec]

\* common.CCSDS_EPOCH = datetime(1958, 1, 1)
CCSDS_EPOCH == DateTime(714780, 0)

SecondsPerDay == 86400

\* A day count rounded to the nearest day instead of floored.
TimedeltaDaysRounded(a, b) ==
    (a.ordinal - b.ordinal)
    + ((a.second - b.second + (SecondsPerDay \div 2)) \div SecondsPerDay)

\* (a - b).days: timedelta normalises to 0 <= seconds < 86400, so the day
\* count is the floor of the difference.
TimedeltaDays(a, b) ==
    (a.ordinal - b.ordinal) + ((a.second - b.second) \div SecondsPerDay)

(* ---------------------------------------------------------------------- *)
(* struct.pack('!HIH', h1, i, h2)                                          *)
(* ---------------------------------------------------------------------- *)

\* The 'H' range taken one too wide.
CanPackHIHWide(h1, i, h2) ==
    /\ h1 >= 0 /\ h1 <= 65536
    /\ i >= 0
    /\ h2 >= 0 /\ h2 <= 65536

\* 'H' takes 0..65535 and 'I' takes 0..2^32-1; anything else raises
\* struct.error.  The 'I' argument is the literal 0 at both call sites, so
\* only its lower bound is written (2^32 is not a TLC integer).
CanPackHIH(h1, i, h2) ==
    /\ h1 >= 0 /\ h1 <= 65535
    /\ i >= 0
    /\ h2 >= 0 /\ h2 <= 65535

\* Network byte order: most significant octet first, 2 + 4 + 2 octets.
PackHIH(h1, i, h2) ==
    << h1 \div 256, h1 % 256,
       (i \div 16777216) % 256, (i \div 65536) % 256, (i \div 256) % 256, i % 256,
       h2 \div 256, h2 % 256 >>

\* The three fields of the CCSDS binary time code, read back from the octets.
DayField(b) == b[1] * 256 + b[2]
MsField(b) == ((b[3] * 256 + b[4]) * 256 + b[5]) * 256 + b[6]
UsField(b) == b[7] * 256 + b[8]

\* The time encoding of start(): day count since the epoch, zero sub-day
\* fields.
TimeDays(t) == TimedeltaDays(t, CCSDS_EPOCH)
CanEncodeTime(t) == CanPackHIH(TimeDays(t), 0, 0)
EncodeTime(t) == PackHIH(TimeDays(t), 0, 0)

(* ---------------------------------------------------------------------- *)
(* Bounds and input sets                                                   *)
(* ---------------------------------------------------------------------- *)

\* Number of API calls made on one session.
MaxCalls == 2

AuthLevels == {"none", "bind", "all"}
DefaultScids == {None, 7}
DefaultTfvns == {None, 1}

ScidArgs == {None, 0, 5}
TfvnArgs == {None, 0, 1}
VcArgs == {None, 0, 3}

\* Day offsets from the epoch: the epoch day, the days after it, one day
\* before it and the first day count that does not fit 16 bits.
DayOffsets == {0 - 1, 0, 1, 365, 10000, 65536}
DaySeconds == {0, 86399}
AllTimes ==
    {DateTime(CCSDS_EPOCH.ordinal + d, s) : d \in DayOffsets, s \in DaySeconds}
FewTimes == {DateTime(CCSDS_EPOCH.ordinal + 1, 0),
             DateTime(CCSDS_EPOCH.ordinal + 365, 86399)}

StartArgs(times, scids, tfvns, masters, vcs) ==
    [start_time : times, end_time : times, spacecraft_id : scids,
     trans_frame_ver_num : tfvns, master_channel : masters,
     virtual_channel : vcs]

\* Every channel argument with a few times, and every time with a few
\* channel arguments.
StartInputs ==
    StartArgs(FewTimes, ScidArgs, TfvnArgs, BOOLEAN, VcArgs)
    \cup StartArgs(AllTimes, {5}, {1}, {FALSE}, {3})

ReportTypes == {"immediately", "periodically", "stop", "bogus"}
CycleArgs == {None, 1, 2, 600, 601}
UnbindReasons == {0, 1}
PeerAbortReasons == {127, 1}

(* ---------------------------------------------------------------------- *)
(* State                                                                   *)
(* ---------------------------------------------------------------------- *)

VARIABLES
    auth_level,   \* self._auth_level
    scid,         \* self._scid
    tfvn,         \* self._tfvn
    invoke_id,    \* the session's invoke-id counter
    credCalls,    \* number of times make_credentials() was invoked
    nsent,        \* number of PDUs handed to self.send
    ncalls,       \* number of operations called
    returned,     \* number of operations that returned without raising
    call,         \* the latest operation: its name, arguments and result
    out,          \* the PDU the latest operation handed to send, or NoPdu
    handlers,     \* self._handlers: registry key -> handlers, in order
    received,     \* the latest decoded PDU given to _handle_pdu, its result
    dispatched,   \* registry keys _handle_pdu looked up for that PDU
    invoked,      \* handlers called for that PDU, each with its argument
    log,          \* bliss.core.log records written for that PDU
    telem,        \* datagrams given to self._telem_sock.sendto for that PDU
    ntelem,       \* number of datagrams sent so far
    ndelivered,   \* number of PDUs given to _handle_pdu so far
    nregistered   \* number of handlers added after construction

outVars == << auth_level, scid, tfvn, invoke_id, credCalls, nsent, ncalls,
              returned, call, out >>

inVars == << handlers, received, dispatched, invoked, log, telem, ntelem,
             ndelivered, nregistered >>

vars == << auth_level, scid, tfvn, invoke_id, credCalls, nsent, ncalls,
           returned, call, out, handlers, received, dispatched, invoked,
           log, telem, ntelem, ndelivered, nregistered >>

NoPdu == [name |-> "none"]

\* A variant name or registry key: its first character and the rest.
Name(first, rest) == [first |-> first, rest |-> rest]

NoReceived == [name |-> Name("", ""), pdu |-> NoPdu, result |-> "none"]

\* The handler table after __init__: one default handler per key.
DefaultHandlers ==
    (Name("R", "cfBindReturn") :> << "_bind_return_handler" >>)
    @@ (Name("R", "cfUnbindReturn") :> << "_unbind_return_handler" >>)
    @@ (Name("R", "cfStartReturn") :> << "_start_return_handler" >>)
    @@ (Name("R", "cfStopReturn") :> << "_stop_return_handler" >>)
    @@ (Name("R", "cfTransferBuffer") :> << "_data_transfer_handler" >>)
    @@ (Name("R", "cfScheduleStatusReportReturn")
            :> << "_schedule_status_report_return_handler" >>)
    @@ (Name("R", "cfStatusReportInvocation")
            :> << "_status_report_invoc_handler" >>)
    @@ (Name("R", "cfGetParameterReturn") :> << "_get_param_return_handler" >>)
    @@ (Name("A", "nnotatedFrame") :> << "_transfer_data_invoc_handler" >>)
    @@ (Name("S", "yncNotification") :> << "_sync_notify_handler" >>)
    @@ (Name("R", "cfPeerAbortInvocation") :> << "_peer_abort_handler" >>)
NoCall == [op |-> "none", result |-> "none"]

Used == [tag |-> "used", value |-> "credentials"]
Unused == [tag |-> "unused", value |-> "null"]

Init ==
    /\ auth_level \in AuthLevels
    /\ scid \in DefaultScids
    /\ tfvn \in DefaultTfvns
    /\ invoke_id = 0
    /\ credCalls = 0
    /\ nsent = 0
    /\ ncalls = 0
    /\ returned = 0
    /\ call = NoCall
    /\ out = NoPdu
    /\ handlers = DefaultHandlers
    /\ received = NoReceived
    /\ dispatched = << >>
    /\ invoked = << >>
    /\ log = << >>
    /\ telem = << >>
    /\ ntelem = 0
    /\ ndelivered = 0
    /\ nregistered = 0

(* ---------------------------------------------------------------------- *)
(* Pieces shared by the operations                                         *)
(* ---------------------------------------------------------------------- *)

\* Credentials attached for the 'bind' level as well.
UsesCredentialsBindToo == auth_level \in {"bind", "all"}

\* if self._auth_level == 'all': ...['used'] = self.make_credentials()
\* else: ...['unused'] = None
UsesCredentials == auth_level = "all"
SelectCredentials == IF UsesCredentials THEN Used ELSE Unused

\* common.SLE.invoke_id: reading it hands out the current value and
\* advances the session's counter.
InvokeIdDrawn == invoke_id + 1

\* common.SLE.make_credentials: one more invocation of the generator.
CredentialsMade == credCalls + 1

\* The end of every operation: the call is recorded with its result, the
\* PDU (if any) goes to send, and the session counters take the values the
\* operation left them with.
Finish(c, result, pdu, madeCreds, drewId) ==
    /\ ncalls < MaxCalls
    /\ ncalls' = ncalls + 1
    /\ call' = [c EXCEPT !.result = result]
    /\ out' = pdu
    /\ nsent' = IF pdu = NoPdu THEN nsent ELSE nsent + 1
    /\ returned' = IF result = "ok" THEN returned + 1 ELSE returned
    /\ credCalls' = IF madeCreds THEN CredentialsMade ELSE credCalls
    /\ invoke_id' = IF drewId THEN InvokeIdDrawn ELSE invoke_id
    /\ UNCHANGED << auth_level, scid, tfvn >>
    /\ UNCHANGED inVars

(* ---------------------------------------------------------------------- *)
(* start                                                                   *)
(* ---------------------------------------------------------------------- *)

\* x = x if x else default
ResolveArg(arg, default) == IF Truthy(arg) THEN arg ELSE default

\* The spacecraft id looked at before the channel selection.
StartValidateScidFirst(a) ==
    IF ~Truthy(ResolveArg(a.spacecraft_id, scid))
    THEN "AttributeError: spacecraft id"
    ELSE IF ~a.master_channel /\ ~Truthy(a.virtual_channel)
    THEN "AttributeError: channel"
    ELSE IF ~Truthy(ResolveArg(a.trans_frame_ver_num, tfvn))
    THEN "AttributeError: frame version"
    ELSE "ok"

\* The three checks that open start(), in the order they are made.
StartValidate(a) ==
    IF ~a.master_channel /\ ~Truthy(a.virtual_channel)
    THEN "AttributeError: channel"
    ELSE IF ~Truthy(ResolveArg(a.spacecraft_id, scid))
    THEN "AttributeError: spacecraft id"
    ELSE IF ~Truthy(ResolveArg(a.trans_frame_ver_num, tfvn))
    THEN "AttributeError: frame version"
    ELSE "ok"

\* The virtual channel preferred whenever one is supplied.
StartVcIdPreferVirtual(a) ==
    IF a.virtual_channel # None
    THEN [masterChannel |-> FALSE, virtualChannel |-> a.virtual_channel]
    ELSE [masterChannel |-> TRUE, virtualChannel |-> None]

\* req_gvcid['vcId']: a choice; the component that is set is the one present.
StartVcId(a) ==
    IF a.master_channel
    THEN [masterChannel |-> TRUE, virtualChannel |-> None]
    ELSE [masterChannel |-> FALSE, virtualChannel |-> a.virtual_channel]

StartGvcId(a) ==
    [spacecraftId |-> ResolveArg(a.spacecraft_id, scid),
     versionNumber |-> ResolveArg(a.trans_frame_ver_num, tfvn),
     vcId |-> StartVcId(a)]

\* The invoke-id field left at its initial value.
StartPduFixedId(a) ==
    [name |-> "rcfStartInvocation",
     invokerCredentials |-> SelectCredentials,
     invokeId |-> 0,
     startTime |-> EncodeTime(a.start_time),
     stopTime |-> EncodeTime(a.end_time),
     requestedGvcId |-> StartGvcId(a)]

StartPdu(a) ==
    [name |-> "rcfStartInvocation",
     invokerCredentials |-> SelectCredentials,
     invokeId |-> invoke_id,
     startTime |-> EncodeTime(a.start_time),
     stopTime |-> EncodeTime(a.end_time),
     requestedGvcId |-> StartGvcId(a)]

StartCallRecord(a) ==
    [op |-> "start", args |-> a, result |-> "none"]

Start(a) ==
    LET v == StartValidate(a) IN
    IF v # "ok"
    THEN Finish(StartCallRecord(a), v, NoPdu, FALSE, FALSE)
    ELSE IF ~(CanEncodeTime(a.start_time) /\ CanEncodeTime(a.end_time))
    THEN Finish(StartCallRecord(a), "struct.error", NoPdu,
                UsesCredentials, TRUE)
    ELSE Finish(StartCallRecord(a), "ok", StartPdu(a), UsesCredentials, TRUE)

StartCall == \E a \in StartInputs : Start(a)

(* ---------------------------------------------------------------------- *)
(* schedule_status_report                                                  *)
(* ---------------------------------------------------------------------- *)

\* The chain without its 'stop' branch.
KnownReportTypeNoStop(report_type) ==
    report_type \in {"immediately", "periodically"}

\* The if/elif chain on report_type; its else branch raises ValueError.
KnownReportType(report_type) ==
    report_type \in {"immediately", "periodically", "stop"}

\* pdu[...]['reportType'][report_type] = cycle for 'periodically', None
\* (the NULL component) for 'immediately' and 'stop'.
ReportTypeChoice(report_type, cycle) ==
    [tag |-> report_type,
     value |-> IF report_type = "periodically" THEN cycle ELSE None]

ScheduleStatusReportPdu(report_type, cycle) ==
    [name |-> "rcfScheduleStatusReportInvocation",
     invokerCredentials |-> SelectCredentials,
     invokeId |-> invoke_id,
     reportType |-> ReportTypeChoice(report_type, cycle)]

ScheduleStatusReportCallRecord(report_type, cycle) ==
    [op |-> "schedule_status_report",
     args |-> [report_type |-> report_type, cycle |-> cycle],
     result |-> "none"]

\* The PDU sent before report_type is looked at.
ScheduleStatusReportSendFirst(report_type, cycle) ==
    IF KnownReportType(report_type)
    THEN Finish(ScheduleStatusReportCallRecord(report_type, cycle), "ok",
                ScheduleStatusReportPdu(report_type, cycle),
                UsesCredentials, TRUE)
    ELSE Finish(ScheduleStatusReportCallRecord(report_type, cycle),
                "ValueError: unknown report type",
                ScheduleStatusReportPdu(report_type, cycle),
                UsesCredentials, TRUE)

\* Credentials are attached and the invoke-id is read before report_type
\* is looked at.
ScheduleStatusReport(report_type, cycle) ==
    IF KnownReportType(report_type)
    THEN Finish(ScheduleStatusReportCallRecord(report_type, cycle), "ok",
                ScheduleStatusReportPdu(report_type, cycle),
                UsesCredentials, TRUE)
    ELSE Finish(ScheduleStatusReportCallRecord(report_type, cycle),
                "ValueError: unknown report type", NoPdu,
                UsesCredentials, TRUE)

ScheduleStatusReportCall ==
    \E report_type \in ReportTypes, cycle \in CycleArgs :
        ScheduleStatusReport(report_type, cycle)

(* ---------------------------------------------------------------------- *)
(* bind, unbind, stop, peer_abort: the RCF envelope, completed and sent by *)
(* the session base class                                                  *)
(* ---------------------------------------------------------------------- *)

\* common.SLE.bind / stop: credentials and an invoke-id are attached to the
\* envelope, which is then sent.
SleInvocationPdu(envelope) ==
    [name |-> envelope,
     invokerCredentials |-> SelectCredentials,
     invokeId |-> invoke_id]

\* common.SLE.unbind: credentials and the reason code.
SleUnbindPdu(envelope, reason) ==
    [name |-> envelope,
     invokerCredentials |-> SelectCredentials,
     unbindReason |-> reason]

Bind ==
    Finish([op |-> "bind", result |-> "none"], "ok",
           SleInvocationPdu("rcfBindInvocation"), UsesCredentials, TRUE)

Unbind(reason) ==
    Finish([op |-> "unbind", args |-> [reason |-> reason], result |-> "none"],
           "ok", SleUnbindPdu("rcfUnbindInvocation", reason),
           UsesCredentials, FALSE)

Stop ==
    Finish([op |-> "stop", result |-> "none"], "ok",
           SleInvocationPdu("rcfStopInvocation"), UsesCredentials, TRUE)

\* pdu['rcfPeerAbortInvocation'] = reason: the PDU is the diagnostic itself.
PeerAbortPdu(reason) ==
    [name |-> "rcfPeerAbortInvocation", diagnostic |-> reason]

PeerAbort(reason) ==
    Finish([op |-> "peer_abort", args |-> [reason |-> reason],
            result |-> "none"],
           "ok", PeerAbortPdu(reason), FALSE, FALSE)

UnbindCall == \E reason \in UnbindReasons : Unbind(reason)
PeerAbortCall == \E reason \in PeerAbortReasons : PeerAbort(reason)

Next ==
    \/ StartCall
    \/ ScheduleStatusReportCall
    \/ Bind
    \/ UnbindCall
    \/ Stop
    \/ PeerAbortCall

Spec == Init /\ [][Next]_vars

(* ---------------------------------------------------------------------- *)
(* Inbound PDUs: decoded values                                            *)
(* ---------------------------------------------------------------------- *)

\* Bounds of the inbound side.
MaxDelivered == 2
MaxRegistered == 2
MaxEntries == 2

\* The length of the transfer-frame primary header that precedes the data
\* segment.
TMHeaderLen == 6

\* frame['data']: absent, present without a value, or an octet string.
AbsentData == [present |-> FALSE, isValue |-> FALSE, octets |-> << >>]
EmptyData == [present |-> TRUE, isValue |-> FALSE, octets |-> << >>]
OctetData(o) == [present |-> TRUE, isValue |-> TRUE, octets |-> o]

FrameDatas ==
    {AbsentData, EmptyData,
     OctetData(<< 16, 32, 0, 0, 24, 0, 1, 2, 3 >>),
     OctetData(<< 16, 32, 0, 1, 24, 0, 9 >>)}

AnnotatedFrame(data) ==
    [name |-> Name("a", "nnotatedFrame"), data |-> data]

SyncNotification(kind, value) ==
    [name |-> Name("s", "yncNotification"),
     notification |-> [name |-> kind, value |-> value]]

LockStatus ==
    [time |-> "1958-01-02T00:00:00", carrierLockStatus |-> "inLock",
     subcarrierLockStatus |-> "outOfLock",
     symbolSynclockStatus |-> "unknown"]

ProductionStatuses == {0 - 1, 0, 1, 2, 3}

BufferEntries ==
    {AnnotatedFrame(d) : d \in FrameDatas}
    \cup {SyncNotification("productionStatusChange", [status |-> i]) :
              i \in ProductionStatuses}
    \cup {SyncNotification("lossFrameSync", LockStatus),
          SyncNotification("excessiveDataBacklog", [status |-> 0]),
          SyncNotification("endOfData", [status |-> 0]),
          SyncNotification("bogusNotification", [status |-> 0])}

RECURSIVE SeqsUpTo(_, _)
SeqsUpTo(S, n) ==
    IF n = 0 THEN {<< >>}
    ELSE LET shorter == SeqsUpTo(S, n - 1) IN
         shorter \cup {Append(q, x) : q \in shorter, x \in S}

TransferBuffer(entries) ==
    [name |-> Name("r", "cfTransferBuffer"), entries |-> entries]

\* The provider-to-user variants other than the transfer buffer.
ReturnVariants ==
    {Name("r", "cfBindReturn"), Name("r", "cfUnbindReturn"),
     Name("r", "cfStartReturn"), Name("r", "cfStopReturn"),
     Name("r", "cfScheduleStatusReportReturn"),
     Name("r", "cfStatusReportInvocation"),
     Name("r", "cfGetParameterReturn"),
     Name("r", "cfPeerAbortInvocation")}

\* Names no default handler is registered for.
OtherVariants == {Name("r", "cfBogusReturn"), Name("r", "cfbindreturn")}

\* The entries that buffers of several entries are built from.
FewEntries ==
    {AnnotatedFrame(OctetData(<< 16, 32, 0, 0, 24, 0, 1, 2, 3 >>)),
     SyncNotification("endOfData", [status |-> 0]),
     SyncNotification("productionStatusChange", [status |-> 3])}

\* Every return, the empty buffer, every buffer of one entry, and the
\* buffers of up to MaxEntries entries drawn from FewEntries.
InboundPdus ==
    {[name |-> n] : n \in ReturnVariants \cup OtherVariants}
    \cup {TransferBuffer(<< e >>) : e \in BufferEntries}
    \cup {TransferBuffer(es) : es \in SeqsUpTo(FewEntries, MaxEntries)}

UserHandlers == {"user_a", "user_b"}
UserKeys ==
    {Name("S", "yncNotification"), Name("R", "cfTransferBuffer"),
     Name("R", "cfBogusReturn")}

(* ---------------------------------------------------------------------- *)
(* _handle_pdu and the default handlers                                    *)
(* ---------------------------------------------------------------------- *)

LowerCase == << "a", "b", "c", "d", "e", "f", "g", "h", "i", "j", "k", "l",
                "m", "n", "o", "p", "q", "r", "s", "t", "u", "v", "w", "x",
                "y", "z" >>
UpperCase == << "A", "B", "C", "D", "E", "F", "G", "H", "I", "J", "K", "L",
                "M", "N", "O", "P", "Q", "R", "S", "T", "U", "V", "W", "X",
                "Y", "Z" >>

\* str.upper() of one character.
StrUpper(c) ==
    IF \E i \in DOMAIN LowerCase : LowerCase[i] = c
    THEN UpperCase[CHOOSE i \in DOMAIN LowerCase : LowerCase[i] = c]
    ELSE c

\* The name looked up as it arrives.
PduKeyAsIs(name) == name

\* pdu_key = pdu_key[:1].upper() + pdu_key[1:]
PduKey(name) == Name(StrUpper(name.first), name.rest)

\* What one handler, or one _handle_pdu, did: the keys looked up, the
\* handlers called, the records logged, the datagrams sent, and the
\* exception it raised ("none" when it returned).
Effect(d, i, l, t, e) ==
    [dispatched |-> d, invoked |-> i, log |-> l, telem |-> t, error |-> e]
NoEffect == Effect(<< >>, << >>, << >>, << >>, "none")
Raise(e) == Effect(<< >>, << >>, << >>, << >>, e)
LogRecord(level, text) == Effect(<< >>, << >>,
                                 << [level |-> level, text |-> text] >>,
                                 << >>, "none")
Then(a, b) ==
    Effect(a.dispatched \o b.dispatched, a.invoked \o b.invoked,
           a.log \o b.log, a.telem \o b.telem, b.error)

\* seq[i] with Python's indexing: 0-based, negative indices count from the
\* end, anything else raises IndexError.
PyIndexOk(q, i) == i < Len(q) /\ i >= 0 - Len(q)
PyIndex(q, i) == IF i >= 0 THEN q[i + 1] ELSE q[Len(q) + i + 1]

\* The handlers of the base class that the return handlers delegate to:
\* they log what was received.
SleReturnHandler(provider_key, pdu) ==
    LogRecord("info", << provider_key >>)

ReturnHandlerKeys ==
    [_bind_return_handler |-> "rcfBindReturn",
     _unbind_return_handler |-> "rcfUnbindReturn",
     _start_return_handler |-> "rcfStartReturn",
     _stop_return_handler |-> "rcfStopReturn",
     _schedule_status_report_return_handler |->
         "rcfScheduleStatusReportReturn",
     _status_report_invoc_handler |-> "rcfStatusReportInvocation",
     _peer_abort_handler |-> "rcfPeerAbortInvocation",
     _get_param_return_handler |-> "rcfGetParameterReturn"]

\* frames.TMTransFrame(tm_data)._data[0]: the octets after the primary
\* header.
TMTransFrameData(octets) ==
    SubSeq(octets, TMHeaderLen + 1, Len(octets))

\* The datagram sent whenever the data field is there, valued or not.
TransferDataInvocHandlerNoValueTest(pdu) ==
    IF pdu.data.present
    THEN Then(LogRecord("info", << "Sending bytes to telemetry port" >>),
              Effect(<< >>, << >>, << >>,
                     << TMTransFrameData(pdu.data.octets) >>, "none"))
    ELSE LogRecord("info", << "RcfTransferBuffer received but data cannot be located. Skipping further processing of this PDU ..." >>)

\* _transfer_data_invoc_handler
TransferDataInvocHandler(pdu) ==
    IF pdu.data.present /\ pdu.data.isValue
    THEN Then(LogRecord("info", << "Sending bytes to telemetry port" >>),
              Effect(<< >>, << >>, << >>,
                     << TMTransFrameData(pdu.data.octets) >>, "none"))
    ELSE LogRecord("info", << "RcfTransferBuffer received but data cannot be located. Skipping further processing of this PDU ..." >>)

\* The labels in another order.
ProdStatusLabelsSwapped == << "running", "halted", "interrupted" >>

ProdStatusLabels == << "running", "interrupted", "halted" >>

\* _sync_notify_handler
SyncNotifyHandler(pdu) ==
    LET notification_name == pdu.notification.name
        notification == pdu.notification.value
    IN
    IF notification_name = "lossFrameSync"
    THEN LogRecord("info",
             << "Frame Sync has been lost. See report below ... ",
                "Lock Status Report",
                "Lock Time: ", notification.time,
                "Carrier Lock Status: ", notification.carrierLockStatus,
                "Sub-Carrier Lock Status: ",
                notification.subcarrierLockStatus,
                "Symbol Sync Lock Status: ",
                notification.symbolSynclockStatus >>)
    ELSE IF notification_name = "productionStatusChange"
    THEN IF PyIndexOk(ProdStatusLabels, notification.status)
         THEN LogRecord("info",
                  << "Production Status Report: ",
                     PyIndex(ProdStatusLabels, notification.status) >>)
         ELSE Raise("IndexError")
    ELSE IF notification_name = "excessiveDataBacklog"
    THEN LogRecord("info", << "Excessive Data Backlog Detected" >>)
    ELSE IF notification_name = "endOfData"
    THEN LogRecord("info", << "End of Data Received" >>)
    ELSE LogRecord("info", << "Received unknown sync notification: ",
                              notification_name >>)

\* The branch of _handle_pdu taken when the key has no handlers, raising
\* as a bare table lookup would.
UnhandledRaises(pdu_key) == Raise("KeyError")

\* The branch of _handle_pdu taken when the key has no handlers.
Unhandled(pdu_key) ==
    LogRecord("error",
        << "PDU of type ", pdu_key.first, pdu_key.rest,
           " has no associated handlers. Unable to process further and skipping ..." >>)

RECURSIVE HandlePdu(_)

\* Every entry of the buffer dispatched in turn.
DataTransferHandlerEveryEntry(pdu) ==
    IF Len(pdu.entries) = 0
    THEN Raise("IndexError")
    ELSE IF Len(pdu.entries) = 1
    THEN HandlePdu(pdu.entries[1])
    ELSE LET first == HandlePdu(pdu.entries[1]) IN
         IF first.error # "none" THEN first
         ELSE Then(first, HandlePdu(pdu.entries[2]))

\* _data_transfer_handler: self._handle_pdu(pdu['rcfTransferBuffer'][0])
DataTransferHandler(pdu) ==
    IF Len(pdu.entries) = 0
    THEN Raise("IndexError")
    ELSE HandlePdu(pdu.entries[1])

\* h(pdu) for a handler of the table; a handler added by the application
\* returns without touching the session.
CallHandler(h, pdu) ==
    IF h = "_data_transfer_handler" THEN DataTransferHandler(pdu)
    ELSE IF h = "_transfer_data_invoc_handler"
    THEN TransferDataInvocHandler(pdu)
    ELSE IF h = "_sync_notify_handler" THEN SyncNotifyHandler(pdu)
    ELSE IF h \in DOMAIN ReturnHandlerKeys
    THEN SleReturnHandler(ReturnHandlerKeys[h], pdu)
    ELSE NoEffect

Invocation(h, pdu) ==
    Effect(<< >>, << [handler |-> h, pdu |-> pdu] >>, << >>, << >>, "none")

\* for h in pdu_handlerss: h(pdu) -- an exception ends the loop.
RECURSIVE RunHandlers(_, _, _)
RunHandlers(hs, i, pdu) ==
    IF i > Len(hs) THEN NoEffect
    ELSE LET e == Then(Invocation(hs[i], pdu), CallHandler(hs[i], pdu)) IN
         IF e.error # "none" THEN e
         ELSE Then(e, RunHandlers(hs, i + 1, pdu))

\* _handle_pdu
HandlePdu(pdu) ==
    LET pdu_key == PduKey(pdu.name) IN
    Then(Effect(<< pdu_key >>, << >>, << >>, << >>, "none"),
         IF pdu_key \in DOMAIN handlers
         THEN RunHandlers(handlers[pdu_key], 1, pdu)
         ELSE Unhandled(pdu_key))

\* A decoded PDU arrives from the transport and is dispatched.
Deliver(pdu) ==
    /\ ndelivered < MaxDelivered
    /\ \E e \in {HandlePdu(pdu)} :
       /\ received' = [name |-> pdu.name, pdu |-> pdu,
                       result |-> IF e.error = "none" THEN "ok" ELSE e.error]
       /\ dispatched' = e.dispatched
       /\ invoked' = e.invoked
       /\ log' = e.log
       /\ telem' = e.telem
       /\ ntelem' = ntelem + Len(e.telem)
    /\ ndelivered' = ndelivered + 1
    /\ UNCHANGED << handlers, nregistered >>
    /\ UNCHANGED outVars

DeliverPdu == \E pdu \in InboundPdus : Deliver(pdu)

\* The application adds a handler: it is appended to the list of its key.
AddHandler(key, h) ==
    /\ nregistered < MaxRegistered
    /\ nregistered' = nregistered + 1
    /\ handlers' =
          IF key \in DOMAIN handlers
          THEN [handlers EXCEPT ![key] = Append(@, h)]
          ELSE handlers @@ (key :> << h >>)
    /\ UNCHANGED << received, dispatched, invoked, log, telem, ntelem,
                    ndelivered >>
    /\ UNCHANGED outVars

AddHandlerCall == \E key \in UserKeys, h \in UserHandlers : AddHandler(key, h)

NextInbound ==
    \/ DeliverPdu
    \/ AddHandlerCall

\* A session constructed with both defaults and full authentication.
InitInbound == Init /\ auth_level = "all" /\ scid = 7 /\ tfvn = 1

SpecInbound == InitInbound /\ [][NextInbound]_vars

(* ---------------------------------------------------------------------- *)
(* Properties                                                              *)
(* ---------------------------------------------------------------------- *)

IsStart == call.op = "start"
IsScheduleStatusReport == call.op = "schedule_status_report"
SentStart == IsStart /\ out.name = "rcfStartInvocation"

ChannelError == "AttributeError: channel"
ScidError == "AttributeError: spacecraft id"
TfvnError == "AttributeError: frame version"
ReportTypeError == "ValueError: unknown report type"
ValidationErrors == {ChannelError, ScidError, TfvnError, ReportTypeError}

NoChannelSupplied == ~call.args.master_channel /\ call.args.virtual_channel = None
NoScidAvailable == call.args.spacecraft_id = None /\ scid = None
NoTfvnAvailable == call.args.trans_frame_ver_num = None /\ tfvn = None

\* C1: start() raises a validation error and sends nothing when (a) neither
\* the master channel nor a virtual channel is selected, (b) no spacecraft
\* id is given and the session has none, (c) no frame version is given and
\* the session has none; the checks are made in that order, so the error of
\* a later check is never reported while an earlier case holds.
C1_StartRejectsMissing ==
    IsStart =>
        /\ NoChannelSupplied => call.result = ChannelError /\ out = NoPdu
        /\ NoScidAvailable =>
              call.result \in {ChannelError, ScidError} /\ out = NoPdu
        /\ NoScidAvailable /\ call.args.master_channel =>
              call.result = ScidError
        /\ NoTfvnAvailable =>
              call.result \in {ChannelError, ScidError, TfvnError}
              /\ out = NoPdu
        /\ NoTfvnAvailable /\ call.args.master_channel
              /\ (call.args.spacecraft_id > 0 \/ scid > 0) =>
              call.result = TfvnError

C1_Witness ==
    /\ IsStart
    /\ NoChannelSupplied /\ NoScidAvailable /\ NoTfvnAvailable
    /\ call.result = ChannelError
    /\ out = NoPdu

ValidStartArgs ==
    /\ call.args.spacecraft_id # None /\ call.args.spacecraft_id > 0
    /\ call.args.trans_frame_ver_num \in {0, 1}
    /\ \/ call.args.master_channel /\ call.args.virtual_channel = None
       \/ ~call.args.master_channel /\ call.args.virtual_channel \in 0..63
    /\ CanEncodeTime(call.args.start_time)
    /\ CanEncodeTime(call.args.end_time)

\* C2: for every valid (spacecraft id, frame version 0 or 1, master channel
\* or a virtual channel index, 0 included), start() succeeds and sends one
\* Start PDU whose requestedGvcId carries the supplied spacecraft id, frame
\* version and channel choice.
C2_ValidStartRoundTrips ==
    IsStart /\ ValidStartArgs =>
        /\ call.result = "ok"
        /\ out.name = "rcfStartInvocation"
        /\ out.requestedGvcId.spacecraftId = call.args.spacecraft_id
        /\ out.requestedGvcId.versionNumber = call.args.trans_frame_ver_num
        /\ out.requestedGvcId.vcId.masterChannel = call.args.master_channel
        /\ out.requestedGvcId.vcId.virtualChannel = call.args.virtual_channel

\* C3: a call that raises hands no PDU to the transport, so the number of
\* PDUs sent always equals the number of calls that returned.
C3_SentEqualsReturned ==
    /\ nsent = returned
    /\ call.result \in ValidationErrors => out = NoPdu

C3_Witness ==
    /\ IsScheduleStatusReport
    /\ call.result = ReportTypeError
    /\ out = NoPdu
    /\ returned = 1
    /\ nsent = 1

\* C4: a call rejected with a validation error leaves the invoke-id counter
\* as it was and does not invoke the credential generator.
C4_RejectedCallHasNoEffect ==
    [][call'.result \in ValidationErrors =>
          invoke_id' = invoke_id /\ credCalls' = credCalls]_vars

\* C5: schedule_status_report sends a PDU tagged with report_type for
\* 'immediately', 'periodically' and 'stop', raises for any other value, and
\* carries no cycle for 'immediately' and 'stop'.
C5_ReportTypeTag ==
    IsScheduleStatusReport =>
        IF call.args.report_type \in {"immediately", "periodically", "stop"}
        THEN /\ call.result = "ok"
             /\ out.name = "rcfScheduleStatusReportInvocation"
             /\ out.reportType.tag = call.args.report_type
             /\ call.args.report_type \in {"immediately", "stop"} =>
                   out.reportType.value = None
        ELSE /\ call.result = ReportTypeError
             /\ out = NoPdu

C5_Witness ==
    /\ IsScheduleStatusReport
    /\ call.args.report_type = "stop"
    /\ call.args.cycle = 600
    /\ call.result = "ok"
    /\ out.reportType = [tag |-> "stop", value |-> None]

\* C6: schedule_status_report('periodically', cycle) is accepted exactly
\* when cycle is an integer in 2..600, and then the PDU carries that cycle;
\* otherwise it is rejected and nothing is sent.
C6_PeriodicCycleRange ==
    IsScheduleStatusReport /\ call.args.report_type = "periodically" =>
        IF call.args.cycle # None /\ call.args.cycle >= 2
           /\ call.args.cycle <= 600
        THEN /\ call.result = "ok"
             /\ out.reportType = [tag |-> "periodically",
                                  value |-> call.args.cycle]
        ELSE /\ call.result # "ok"
             /\ out = NoPdu

\* C7: the Start PDU carries the spacecraft_id argument whenever one is
\* supplied (0 included) and the session default only when it is absent;
\* likewise the transfer-frame version number.
C7_SuppliedArgumentWins ==
    SentStart =>
        /\ out.requestedGvcId.spacecraftId =
              (IF call.args.spacecraft_id # None
               THEN call.args.spacecraft_id ELSE scid)
        /\ out.requestedGvcId.versionNumber =
              (IF call.args.trans_frame_ver_num # None
               THEN call.args.trans_frame_ver_num ELSE tfvn)

\* C8: every Start PDU sent carries exactly one of the master-channel
\* marker and a virtual-channel index: the marker when master_channel is
\* true (a virtual_channel given with it is dropped), the supplied index
\* when it is false.
C8_ExactlyOneChannel ==
    SentStart =>
        LET v == out.requestedGvcId.vcId IN
        /\ v.masterChannel # (v.virtualChannel # None)
        /\ call.args.master_channel =>
              v.masterChannel /\ v.virtualChannel = None
        /\ ~call.args.master_channel =>
              /\ ~v.masterChannel
              /\ call.args.virtual_channel # None
              /\ v.virtualChannel = call.args.virtual_channel

C8_Witness ==
    /\ SentStart
    /\ call.args.master_channel
    /\ call.args.virtual_channel = 3
    /\ out.requestedGvcId.vcId =
          [masterChannel |-> TRUE, virtualChannel |-> None]

WholeDays(t) == t.ordinal - CCSDS_EPOCH.ordinal

\* C9: a start or end time lying N whole days after the epoch, whatever its
\* time of day, is encoded with day field N and zero millisecond and
\* microsecond fields.
C9_DayResolution ==
    SentStart =>
        /\ DayField(out.startTime) = WholeDays(call.args.start_time)
        /\ MsField(out.startTime) = 0
        /\ UsField(out.startTime) = 0
        /\ DayField(out.stopTime) = WholeDays(call.args.end_time)
        /\ MsField(out.stopTime) = 0
        /\ UsField(out.stopTime) = 0

C9_Witness ==
    /\ SentStart
    /\ WholeDays(call.args.start_time) = 10000
    /\ call.args.start_time.second = 86399
    /\ WholeDays(call.args.end_time) = 365
    /\ DayField(out.startTime) = 10000
    /\ DayField(out.stopTime) = 365

HasCredentials(pdu) == "invokerCredentials" \in DOMAIN pdu

Delivered == received.result # "none"
DeliverStep == ndelivered' # ndelivered
Range(q) == {q[i] : i \in DOMAIN q}
HandlerNames(q) == [i \in DOMAIN q |-> q[i].handler]

\* Of the invocations inv, those made for the PDUs looked up under key.
InvokedFor(inv, key) ==
    SelectSeq(inv, LAMBDA x : PduKey(x.pdu.name) = key)

IsTransferBuffer(pdu) == pdu.name = Name("r", "cfTransferBuffer")
IsFrameEntry(e) == e.name = Name("a", "nnotatedFrame")
IsSyncEntry(e) == e.name = Name("s", "yncNotification")
FirstEntryIs(pdu, Test(_)) ==
    IsTransferBuffer(pdu) /\ Len(pdu.entries) >= 1 /\ Test(pdu.entries[1])

\* C11: when k handlers are registered under a variant name, one dispatch
\* of a PDU of that variant calls each of them exactly once, in
\* registration order, each with the same PDU value; handlers registered
\* under other names are not called.
C11_AllHandlersInOrder ==
    [][DeliverStep =>
          /\ \A key \in Range(dispatched') \cap DOMAIN handlers :
                LET calls == InvokedFor(invoked', key) IN
                /\ Len(calls) = Len(handlers[key])
                /\ \A i \in DOMAIN calls :
                      /\ calls[i].handler = handlers[key][i]
                      /\ calls[i].pdu = calls[1].pdu
          /\ \A i \in DOMAIN invoked' :
                PduKey(invoked'[i].pdu.name) \in Range(dispatched')]_vars

Unregistered(name) == PduKey(name) \notin DOMAIN handlers

\* C12: dispatching a PDU whose normalised variant name has no entry in the
\* handler table logs one error, calls no handler, sends no datagram,
\* returns normally, and leaves the handler table (the only state a
\* dispatch reads) as it was, so that every PDU is processed afterwards
\* exactly as it would have been before.
C12_UnhandledIsSkipped ==
    [][DeliverStep /\ Unregistered(received'.name) =>
          /\ received'.result = "ok"
          /\ invoked' = << >>
          /\ telem' = << >>
          /\ ntelem' = ntelem
          /\ Len(log') = 1
          /\ log'[1].level = "error"
          /\ dispatched' = << PduKey(received'.name) >>
          /\ handlers' = handlers]_vars

C12_Witness ==
    /\ received.name = Name("r", "cfbindreturn")
    /\ received.result = "ok"
    /\ ndelivered = 2
    /\ Len(log) = 1
    /\ log[1].level = "error"
    /\ invoked = << >>

HasFrameData(e) == IsFrameEntry(e) /\ e.data.present /\ e.data.isValue
HasNoFrameData(e) == IsFrameEntry(e) /\ ~e.data.present

\* C13: a dispatched transfer buffer whose entry is an AnnotatedFrame with
\* a present, valid data field sends exactly one datagram, the frame's
\* primary data segment, and every other PDU sends none, so the datagrams
\* sent number the data-bearing frames dispatched; a frame without a data
\* field logs exactly one message.
C13_FramesForwarded ==
    [][DeliverStep =>
          LET pdu == received'.pdu IN
          /\ IF FirstEntryIs(pdu, HasFrameData)
             THEN /\ telem' = << TMTransFrameData(pdu.entries[1].data.octets) >>
                  /\ ntelem' = ntelem + 1
             ELSE /\ telem' = << >>
                  /\ ntelem' = ntelem
          /\ FirstEntryIs(pdu, HasNoFrameData) => Len(log') = 1]_vars

C13_Witness ==
    /\ ndelivered = 2
    /\ ntelem = 1
    /\ FirstEntryIs(received.pdu, HasNoFrameData)
    /\ telem = << >>
    /\ Len(log) = 1

NotificationOf(pdu) == pdu.entries[1].notification
Contains(text, part) == \E i \in DOMAIN text : text[i] = part

\* C14: a SyncNotification of kind productionStatusChange with payload 0,
\* 1, 2 is reported as 'running', 'interrupted', 'halted'; the kinds
\* excessiveDataBacklog and endOfData have fixed reports; lossFrameSync is
\* reported with its lock time and three lock-status fields; any other kind
\* is reported with its raw name.  Each of these logs exactly one report.
C14_NotificationReports ==
    Delivered /\ FirstEntryIs(received.pdu, IsSyncEntry) =>
        LET n == NotificationOf(received.pdu)
            one == Len(log) = 1 /\ log[1].level = "info"
        IN
        /\ n.name = "productionStatusChange" /\ n.value.status \in {0, 1, 2} =>
              /\ one
              /\ n.value.status = 0 => Contains(log[1].text, "running")
              /\ n.value.status = 1 => Contains(log[1].text, "interrupted")
              /\ n.value.status = 2 => Contains(log[1].text, "halted")
        /\ n.name = "excessiveDataBacklog" =>
              one /\ log[1].text = << "Excessive Data Backlog Detected" >>
        /\ n.name = "endOfData" =>
              one /\ log[1].text = << "End of Data Received" >>
        /\ n.name = "lossFrameSync" =>
              /\ one
              /\ Contains(log[1].text, n.value.time)
              /\ Contains(log[1].text, n.value.carrierLockStatus)
              /\ Contains(log[1].text, n.value.subcarrierLockStatus)
              /\ Contains(log[1].text, n.value.symbolSynclockStatus)
        /\ n.name \notin {"productionStatusChange", "excessiveDataBacklog",
                          "endOfData", "lossFrameSync"} =>
              one /\ Contains(log[1].text, n.name)

C14_Witness ==
    /\ Delivered
    /\ FirstEntryIs(received.pdu, IsSyncEntry)
    /\ NotificationOf(received.pdu).name = "productionStatusChange"
    /\ NotificationOf(received.pdu).value.status = 1
    /\ log = << [level |-> "info",
                 text |-> << "Production Status Report: ", "interrupted" >>] >>

\* C15: no inbound PDU is fatal: whatever is dispatched (an empty transfer
\* buffer, a frame without data, a notification of unknown kind, a
\* production status outside 0..2), dispatch returns without raising.
C15_DispatchNeverRaises ==
    received.result \in {"none", "ok"}

\* C16: a transfer buffer with a first entry causes exactly one nested
\* dispatch, keyed by that entry's normalised variant name; the entries
\* after the first are never dispatched: no handler is called with them and
\* nothing is sent or reported for them.
C16_OnlyFirstEntry ==
    Delivered /\ IsTransferBuffer(received.pdu)
              /\ Len(received.pdu.entries) >= 1 =>
        LET first == received.pdu.entries[1] IN
        /\ dispatched = << Name("R", "cfTransferBuffer"),
                           Name(StrUpper(first.name.first), first.name.rest) >>
        /\ \A i \in DOMAIN invoked : invoked[i].pdu \in {received.pdu, first}
        /\ Len(telem) <= 1
        /\ Len(log) <= 2
        /\ Len(telem) = 1 => HasFrameData(first)
        /\ IsSyncEntry(first) => Len(log) <= 1

C16_Witness ==
    /\ Delivered
    /\ IsTransferBuffer(received.pdu)
    /\ Len(received.pdu.entries) = 2
    /\ IsSyncEntry(received.pdu.entries[1])
    /\ HasFrameData(received.pdu.entries[2])
    /\ dispatched = << Name("R", "cfTransferBuffer"),
                       Name("S", "yncNotification") >>
    /\ telem = << >>

(* ---------------------------------------------------------------------- *)
(* Properties of time encoding, invoke-ids and the handler table           *)
(* ---------------------------------------------------------------------- *)

PassedStartChecks ==
    IsStart /\ call.result \notin {ChannelError, ScidError, TfvnError}

TruthyStartArgs ==
    /\ call.args.spacecraft_id > 0
    /\ call.args.trans_frame_ver_num = 1
    /\ call.args.master_channel \/ call.args.virtual_channel > 0

FitsDayField(t) == WholeDays(t) >= 0 /\ WholeDays(t) <= 65535

\* C17: time encoding has no error path: with otherwise valid arguments,
\* start() encodes both times and sends the Start PDU without raising,
\* whatever the day counts (65536 or more, or negative for a time before
\* the epoch).
C17_TimeEncodingNeverRaises ==
    IsStart /\ TruthyStartArgs =>
        call.result = "ok" /\ out.name = "rcfStartInvocation"

\* C17 (amended): time encoding has an error path: when the three argument
\* checks of start() pass, it encodes both times and sends the Start PDU
\* exactly when both day counts since the epoch lie in 0..65535; a start or
\* end time before the epoch, or 65536 or more days after it, makes start()
\* raise struct.error and nothing is sent.
C17_TimeEncodingRange ==
    PassedStartChecks =>
        IF FitsDayField(call.args.start_time)
           /\ FitsDayField(call.args.end_time)
        THEN /\ call.result = "ok"
             /\ out.name = "rcfStartInvocation"
             /\ DayField(out.startTime) = WholeDays(call.args.start_time)
             /\ DayField(out.stopTime) = WholeDays(call.args.end_time)
        ELSE /\ call.result = "struct.error"
             /\ out = NoPdu

C17_Witness ==
    /\ PassedStartChecks
    /\ WholeDays(call.args.start_time) = 0
    /\ WholeDays(call.args.end_time) = 65536
    /\ call.result = "struct.error"
    /\ out = NoPdu
    /\ nsent = 0

HasInvokeId(pdu) == "invokeId" \in DOMAIN pdu

\* C18: each successful start() or schedule_status_report() draws exactly
\* one invoke-id and sends exactly one PDU carrying it; the invoke-ids of
\* the PDUs sent on a session are distinct and strictly increasing in call
\* order.
C18_InvokeIdsIncrease ==
    [][/\ ncalls' # ncalls
          /\ call'.op \in {"start", "schedule_status_report"}
          /\ call'.result = "ok" =>
              /\ HasInvokeId(out')
              /\ out'.invokeId = invoke_id
              /\ invoke_id' = invoke_id + 1
              /\ nsent' = nsent + 1
       /\ invoke_id' >= invoke_id
       /\ HasInvokeId(out) => out.invokeId < invoke_id
       /\ HasInvokeId(out') => out'.invokeId < invoke_id'
       /\ HasInvokeId(out) /\ HasInvokeId(out') /\ ncalls' # ncalls =>
              out'.invokeId > out.invokeId]_vars

C18_Witness ==
    /\ IsScheduleStatusReport
    /\ call.result = "ok"
    /\ ncalls = 2
    /\ nsent = 2
    /\ out.invokeId = 1
    /\ invoke_id = 2

\* The variant names the protocol defines, as they arrive.
ProtocolVariants ==
    ReturnVariants
    \cup {Name("r", "cfTransferBuffer"), Name("a", "nnotatedFrame"),
          Name("s", "yncNotification")}

DefaultHandlerNames ==
    DOMAIN ReturnHandlerKeys
    \cup {"_data_transfer_handler", "_transfer_data_invoc_handler",
          "_sync_notify_handler"}

DefaultsUnder(key) ==
    {i \in DOMAIN handlers[key] : handlers[key][i] \in DefaultHandlerNames}

\* C19: every variant name the protocol defines maps, after upper-casing
\* its first character, to a registry key that has exactly one default
\* handler (and, in a fresh session, nothing else), so dispatching such a
\* PDU never takes the 'no associated handlers' branch; dispatching never
\* adds or removes handlers.
C19_ProtocolVariantsHandled ==
    /\ [](/\ \A v \in ProtocolVariants :
                /\ PduKey(v) \in DOMAIN handlers
                /\ Cardinality(DefaultsUnder(PduKey(v))) = 1
                /\ nregistered = 0 => Len(handlers[PduKey(v)]) = 1
          /\ Delivered /\ received.name \in ProtocolVariants =>
                \A i \in DOMAIN log : log[i].level # "error")
    /\ [][DeliverStep => handlers' = handlers]_vars

C19_Witness ==
    /\ nregistered = 0
    /\ ndelivered = 2
    /\ handlers = DefaultHandlers
    /\ received.result = "ok"
    /\ dispatched = << Name("R", "cfTransferBuffer"),
                       Name("A", "nnotatedFrame") >>
    /\ Len(telem) = 1

====
